---------------------------- MODULE Spec2Model ----------------------------
(***************************************************************************)
(* Model of the loss subsystem of lightning-pose                           *)
(* (src/lightning_pose/losses/losses.py).                                  *)
(*                                                                         *)
(* One loss instance is constructed and then used: its methods are invoked *)
(* directly (remove_nans, compute_loss, rectify_epsilon, reduce_loss,      *)
(* log_loss, weight) or through __call__, which runs the statements of the *)
(* class's __call__ body one after the other.  hist keeps what the         *)
(* properties need of the past: the instance as its constructor left it,   *)
(* the number of PCA fits run, and one earlier call with its outcome.      *)
(*                                                                         *)
(* Numbers.  Tensor elements and scalars are exact rationals n/d, with     *)
(* not-a-number as the value 0/0.  log_weight is kept in units of ln 2, so *)
(* that exp(log_weight) is the exact power of two 2^log_weight.  Rounding  *)
(* and overflow of float32 are not modelled.                               *)
(***************************************************************************)
EXTENDS Integers, Sequences, FiniteSets, TLC

VARIABLES inst, pc, frame, hist

vars == <<inst, pc, frame, hist>>

---------------------------------------------------------------------------
(* Bounds of the model                                                     *)

\* largest batch size of an input tensor
MaxBatch == 3
\* largest number of keypoints of an input tensor
MaxKp == 2
\* pixels of one heatmap slice (heatmap_height x heatmap_width, flattened)
NumPixels == 2
\* log_weight ranges over -MaxLogW..MaxLogW (units of ln 2)
MaxLogW == 1
\* epsilon ranges over 0..MaxEps
MaxEps == 2
\* square roots are taken to 1/SqrtScale
SqrtScale == 100

---------------------------------------------------------------------------
(* Rational arithmetic with not-a-number                                   *)

Abs(x) == IF x < 0 THEN -x ELSE x

RECURSIVE GCD(_, _)
GCD(a, b) == IF b = 0 THEN a ELSE GCD(b, a % b)

NaN == [n |-> 0, d |-> 0]

Rat(n, d) ==
    IF d = 0 THEN NaN
    ELSE LET g == GCD(Abs(n), Abs(d))
             s == IF d < 0 THEN -1 ELSE 1
         IN  [n |-> s * (n \div g), d |-> s * (d \div g)]

R(i) == [n |-> i, d |-> 1]

IsNaN(x) == x.d = 0

RAdd(x, y) == IF IsNaN(x) \/ IsNaN(y) THEN NaN
              ELSE Rat(x.n * y.d + y.n * x.d, x.d * y.d)

RSub(x, y) == IF IsNaN(x) \/ IsNaN(y) THEN NaN
              ELSE Rat(x.n * y.d - y.n * x.d, x.d * y.d)

RMul(x, y) == IF IsNaN(x) \/ IsNaN(y) THEN NaN
              ELSE Rat(x.n * y.n, x.d * y.d)

\* x / y; the only division by zero the model meets is 0/0 (mean of nothing)
RDiv(x, y) == IF IsNaN(x) \/ IsNaN(y) THEN NaN
              ELSE Rat(x.n * y.d, x.d * y.n)

\* comparisons with not-a-number are false
RLt(x, y) == ~IsNaN(x) /\ ~IsNaN(y) /\ x.n * y.d < y.n * x.d
REq(x, y) == ~IsNaN(x) /\ ~IsNaN(y) /\ x.n * y.d = y.n * x.d
RGe0(x) == ~IsNaN(x) /\ x.n >= 0

\* the integer square root of m by bisection: lo * lo <= m < hi * hi
RECURSIVE ISqrtIn(_, _, _)
ISqrtIn(m, lo, hi) ==
    IF hi - lo <= 1 THEN lo
    ELSE LET mid == (lo + hi) \div 2
         IN  IF mid * mid <= m THEN ISqrtIn(m, mid, hi) ELSE ISqrtIn(m, lo, mid)

\* an upper limit of the square roots the model takes
SqrtLimit == 32768

ISqrt(m) == ISqrtIn(m, 0, SqrtLimit)

\* square root, rounded down to a multiple of 1/SqrtScale
RSqrt(x) ==
    IF IsNaN(x) \/ x.n < 0 THEN NaN
    ELSE Rat(ISqrt((x.n * SqrtScale * SqrtScale) \div x.d), SqrtScale)

RECURSIVE Pow2(_)
Pow2(k) == IF k = 0 THEN 1 ELSE 2 * Pow2(k - 1)

\* torch.exp of a log_weight given in units of ln 2
Exp(k) == IF k >= 0 THEN R(Pow2(k)) ELSE Rat(1, Pow2(-k))

RECURSIVE SeqSum(_)
SeqSum(s) == IF s = <<>> THEN R(0) ELSE RAdd(Head(s), SeqSum(Tail(s)))

RECURSIVE Flatten(_)
Flatten(ss) == IF ss = <<>> THEN <<>> ELSE Head(ss) \o Flatten(Tail(ss))

\* torch.mean over all elements of a flat tensor: 0/0 for an empty tensor
Mean(s) == RDiv(SeqSum(s), R(Len(s)))

Sum(s) == SeqSum(s)

---------------------------------------------------------------------------
(* Loss instances and their construction                                   *)

Stages == {"train", "val", "test"}

\* Python's None, for an argument of string or table type
None == "None"

ConcreteClasses == {"HeatmapMSELoss", "HeatmapWassersteinLoss", "PCALoss",
                    "TemporalLoss", "UnimodalLoss", "RegressionMSELoss",
                    "RegressionRMSELoss"}

HeatmapClasses == {"HeatmapMSELoss", "HeatmapWassersteinLoss"}
RegressionClasses == {"RegressionMSELoss", "RegressionRMSELoss"}

\* the fitted parameters of KeypointPCA; none for the other classes
NoPca == [fitted |-> FALSE, kept_eigenvectors |-> 0, mean |-> R(0),
          epsilon |-> R(0), mirrored_column_matches |-> <<>>]

NoInst == [cls |-> "none", loss_name |-> "none", epsilon |-> R(0),
           log_weight |-> 0, pca |-> NoPca]

\* Loss.__init__: epsilon and log_weight are stored, loss_name is "base"
Loss_init(cls, epsilon, log_weight) ==
    [cls |-> cls, loss_name |-> "base", epsilon |-> epsilon,
     log_weight |-> log_weight, pca |-> NoPca]

\* a variant of HeatmapLoss.__init__ that forwards the configured epsilon
HeatmapLoss_init_ForwardsEpsilon(cls, cfg) ==
    Loss_init(cls, cfg.epsilon, cfg.log_weight)

\* HeatmapLoss.__init__: forwards data_module and log_weight only
HeatmapLoss_init(cls, cfg) == Loss_init(cls, R(0), cfg.log_weight)

HeatmapMSELoss_init(cfg) ==
    [HeatmapLoss_init("HeatmapMSELoss", cfg) EXCEPT !.loss_name = "heatmap_mse"]

HeatmapWassersteinLoss_init(cfg) ==
    [HeatmapLoss_init("HeatmapWassersteinLoss", cfg)
        EXCEPT !.loss_name = "heatmap_wasserstein"]

TemporalLoss_init(cfg) ==
    [Loss_init("TemporalLoss", cfg.epsilon, cfg.log_weight)
        EXCEPT !.loss_name = "temporal"]

UnimodalLoss_init(cfg) ==
    [Loss_init("UnimodalLoss", cfg.epsilon, cfg.log_weight)
        EXCEPT !.loss_name = cfg.loss_name]

RegressionMSELoss_init(cls, cfg) ==
    [Loss_init(cls, cfg.epsilon, cfg.log_weight)
        EXCEPT !.loss_name = "regression_mse"]

RegressionRMSELoss_init(cfg) ==
    [RegressionMSELoss_init("RegressionRMSELoss", cfg) EXCEPT !.loss_name = "rmse"]

\* KeypointPCA(...) followed by self.pca(): the fit over the training
\* keypoints.  The subspace kept is spanned by the first kept_eigenvectors
\* coordinate axes; epsilon is the empirical percentile of the
\* reprojection error of the training set.
KeypointPCA_fit(fit, mirrored_column_matches) ==
    [fitted |-> TRUE, kept_eigenvectors |-> fit.kept_eigenvectors,
     mean |-> fit.mean, epsilon |-> fit.epsilon,
     mirrored_column_matches |-> mirrored_column_matches]

\* a variant of PCALoss.__init__ that wants a table under every loss_name
PCALoss_init_raises_AnyName(cfg) == cfg.mirrored_column_matches = <<>>

\* PCALoss.__init__ raises ValueError for pca_multiview without a table
PCALoss_init_raises(cfg) ==
    cfg.loss_name = "pca_multiview" /\ cfg.mirrored_column_matches = <<>>

\* a variant of PCALoss.__init__ that keeps the epsilon of the configuration
PCALoss_init_KeepsConfigEpsilon(cfg, fit) ==
    LET base == [Loss_init("PCALoss", cfg.epsilon, cfg.log_weight)
                    EXCEPT !.loss_name = cfg.loss_name]
        pca == KeypointPCA_fit(fit, cfg.mirrored_column_matches)
    IN  [base EXCEPT !.pca = pca]

\* PCALoss.__init__ where it does not raise: the fit, then self.epsilon
PCALoss_init(cfg, fit) ==
    LET base == [Loss_init("PCALoss", R(0), cfg.log_weight)
                    EXCEPT !.loss_name = cfg.loss_name]
        pca == KeypointPCA_fit(fit, cfg.mirrored_column_matches)
    IN  [base EXCEPT !.pca = pca, !.epsilon = pca.epsilon]

\* the loss_name values the @typechecked constructors accept
LossNamesOf(cls) ==
    CASE cls = "PCALoss" -> {"pca_singleview", "pca_multiview"}
      [] cls = "UnimodalLoss" -> {"unimodal_mse", "unimodal_wasserstein"}
      [] OTHER -> {None}

NewInstance(cls, cfg, fit) ==
    CASE cls = "HeatmapMSELoss" -> HeatmapMSELoss_init(cfg)
      [] cls = "HeatmapWassersteinLoss" -> HeatmapWassersteinLoss_init(cfg)
      [] cls = "PCALoss" -> PCALoss_init(cfg, fit)
      [] cls = "TemporalLoss" -> TemporalLoss_init(cfg)
      [] cls = "UnimodalLoss" -> UnimodalLoss_init(cfg)
      [] cls = "RegressionMSELoss" -> RegressionMSELoss_init("RegressionMSELoss", cfg)
      [] cls = "RegressionRMSELoss" -> RegressionRMSELoss_init(cfg)

\* a variant of get_loss_classes that also registers the RMSE loss
get_loss_classes_WithRmse ==
    [name \in {"regression", "rmse", "heatmap_mse", "heatmap_wasserstein",
               "pca_multiview", "pca_singleview", "temporal",
               "unimodal_mse", "unimodal_wasserstein"} |->
        CASE name = "regression" -> "RegressionMSELoss"
          [] name = "rmse" -> "RegressionRMSELoss"
          [] name = "heatmap_mse" -> "HeatmapMSELoss"
          [] name = "heatmap_wasserstein" -> "HeatmapWassersteinLoss"
          [] name \in {"pca_multiview", "pca_singleview"} -> "PCALoss"
          [] name = "temporal" -> "TemporalLoss"
          [] OTHER -> "UnimodalLoss"]

\* get_loss_classes(): the dict from names to loss classes
get_loss_classes ==
    [name \in {"regression", "heatmap_mse", "heatmap_wasserstein",
               "pca_multiview", "pca_singleview", "temporal",
               "unimodal_mse", "unimodal_wasserstein"} |->
        CASE name = "regression" -> "RegressionMSELoss"
          [] name = "heatmap_mse" -> "HeatmapMSELoss"
          [] name = "heatmap_wasserstein" -> "HeatmapWassersteinLoss"
          [] name = "pca_multiview" -> "PCALoss"
          [] name = "pca_singleview" -> "PCALoss"
          [] name = "temporal" -> "TemporalLoss"
          [] name = "unimodal_mse" -> "UnimodalLoss"
          [] name = "unimodal_wasserstein" -> "UnimodalLoss"]

\* a variant of Loss.weight without the factor 2
weight_NoHalf(self) == RDiv(R(1), Exp(self.log_weight))

\* Loss.weight
weight(self) == RDiv(R(1), RMul(R(2), Exp(self.log_weight)))

LogWeights == (-MaxLogW) .. MaxLogW
Epsilons == {R(e) : e \in 0 .. MaxEps}

\* the column-matching tables a configuration may carry: none, or two
\* views of one keypoint each
ColumnMatches == {<<>>, <<<<1>>, <<2>>>>}

PcaFits == [kept_eigenvectors : {1, 2}, mean : {R(0), R(1)},
            epsilon : Epsilons]

NoFit == [kept_eigenvectors |-> 0, mean |-> R(0), epsilon |-> R(0)]

Configs(cls) ==
    [loss_name : LossNamesOf(cls), epsilon : Epsilons, log_weight : LogWeights,
     mirrored_column_matches :
         IF cls = "PCALoss" THEN ColumnMatches ELSE {<<>>}]

---------------------------------------------------------------------------
(* Tensors.  A coordinate tensor (batch, 2K) is a sequence of rows; a      *)
(* heatmap tensor (batch, K, H, W) is a sequence of rows of K slices, each *)
(* slice the sequence of its pixels.  A method's outcome is a record       *)
(* [error, value]: error is "" when the method returned value.             *)

Ok(v) == [error |-> "", value |-> v]
Raise(e) == [error |-> e, value |-> <<>>]

\* boolean-mask selection: the elements of s whose mask entry is TRUE,
\* in the order of s
RECURSIVE MaskedSelect(_, _)
MaskedSelect(s, mask) ==
    IF s = <<>> THEN <<>>
    ELSE (IF Head(mask) THEN <<Head(s)>> ELSE <<>>)
            \o MaskedSelect(Tail(s), Tail(mask))

SqErr(t, p) == LET e == RSub(t, p) IN RMul(e, e)

\* F.mse_loss(targets, predictions, reduction="none") on flat tensors
MseLoss(targets, predictions) ==
    [i \in 1 .. Len(targets) |-> SqErr(targets[i], predictions[i])]

\* a variant of HeatmapLoss.remove_nans that also drops the slices whose
\* prediction is all zero
HeatmapLoss_remove_nans_MasksPredictions(targets, predictions) ==
    LET squeezed_targets == Flatten(targets)
        squeezed_predictions == Flatten(predictions)
        zero(slice) == \A j \in 1 .. Len(slice) : REq(slice[j], R(0))
        keep == [i \in 1 .. Len(squeezed_targets) |->
                    ~zero(squeezed_targets[i]) /\ ~zero(squeezed_predictions[i])]
    IN  Ok([targets |-> MaskedSelect(squeezed_targets, keep),
            predictions |-> MaskedSelect(squeezed_predictions, keep)])

\* HeatmapLoss.remove_nans
HeatmapLoss_remove_nans(targets, predictions) ==
    LET squeezed_targets == Flatten(targets)
        all_zeroes == [i \in 1 .. Len(squeezed_targets) |->
                          \A j \in 1 .. Len(squeezed_targets[i]) :
                              REq(squeezed_targets[i][j], R(0))]
        keep == [i \in 1 .. Len(all_zeroes) |-> ~all_zeroes[i]]
    IN  Ok([targets |-> MaskedSelect(squeezed_targets, keep),
            predictions |-> MaskedSelect(Flatten(predictions), keep)])

\* a variant of RegressionMSELoss.remove_nans that drops both coordinates
\* of a keypoint when one of them is not-a-number
RegressionMSELoss_remove_nans_PerKeypoint(targets, predictions) ==
    LET flat == Flatten(targets)
        other(i) == IF i % 2 = 1 THEN i + 1 ELSE i - 1
        mask == [i \in 1 .. Len(flat) |->
                    REq(flat[i], flat[i]) /\ REq(flat[other(i)], flat[other(i)])]
    IN  Ok([targets |-> MaskedSelect(flat, mask),
            predictions |-> MaskedSelect(Flatten(predictions), mask)])

\* RegressionMSELoss.remove_nans (inherited by RegressionRMSELoss)
RegressionMSELoss_remove_nans(targets, predictions) ==
    LET flat == Flatten(targets)
        mask == [i \in 1 .. Len(flat) |-> REq(flat[i], flat[i])]
    IN  Ok([targets |-> MaskedSelect(flat, mask),
            predictions |-> MaskedSelect(Flatten(predictions), mask)])

\* PCALoss.remove_nans, TemporalLoss.remove_nans, UnimodalLoss.remove_nans:
\* the body is `pass`
Pass_remove_nans == Ok(None)

\* HeatmapMSELoss.compute_loss: one squared error per pixel of every slice
HeatmapMSELoss_compute_loss(targets, predictions) ==
    Ok([i \in 1 .. Len(targets) |-> MseLoss(targets[i], predictions[i])])

\* geomloss.SamplesLoss("sinkhorn") between two slices: a transport cost,
\* zero between equal slices.  Stands for the library by the total
\* squared difference of the slices.
SamplesLoss(target, prediction) == SeqSum(MseLoss(target, prediction))

\* HeatmapWassersteinLoss.compute_loss: one distance per slice
HeatmapWassersteinLoss_compute_loss(targets, predictions) ==
    Ok([i \in 1 .. Len(targets) |-> SamplesLoss(targets[i], predictions[i])])

\* a variant of RegressionMSELoss.compute_loss without the square
RegressionMSELoss_compute_loss_Signed(targets, predictions) ==
    Ok([i \in 1 .. Len(targets) |-> RSub(targets[i], predictions[i])])

\* RegressionMSELoss.compute_loss
RegressionMSELoss_compute_loss(targets, predictions) ==
    Ok(MseLoss(targets, predictions))

\* tensor.reshape(-1, 2) of a flat tensor: fails on an odd number of
\* elements, and on none (the -1 is ambiguous)
CanReshapePairs(flat) == Len(flat) > 0 /\ Len(flat) % 2 = 0
ReshapePairs(flat) ==
    [i \in 1 .. (Len(flat) \div 2) |-> <<flat[2 * i - 1], flat[2 * i]>>]

\* a variant of RegressionRMSELoss.compute_loss that sums the two squared
\* errors of a pair: the Euclidean norm
RegressionRMSELoss_compute_loss_Norm(targets, predictions) ==
    IF ~CanReshapePairs(targets) THEN Raise("RuntimeError")
    ELSE LET targs == ReshapePairs(targets)
             preds == ReshapePairs(predictions)
             loss == [i \in 1 .. Len(targs) |-> Sum(MseLoss(targs[i], preds[i]))]
         IN  Ok([i \in 1 .. Len(loss) |-> RSqrt(loss[i])])

\* RegressionRMSELoss.compute_loss
RegressionRMSELoss_compute_loss(targets, predictions) ==
    IF ~CanReshapePairs(targets) THEN Raise("RuntimeError")
    ELSE LET targs == ReshapePairs(targets)
             preds == ReshapePairs(predictions)
             loss == [i \in 1 .. Len(targs) |-> Mean(MseLoss(targs[i], preds[i]))]
         IN  Ok([i \in 1 .. Len(loss) |-> RSqrt(loss[i])])

\* torch.linalg.norm(ord=2) of one (x, y) pair
Norm2(xy) == RSqrt(RAdd(RMul(xy[1], xy[1]), RMul(xy[2], xy[2])))

\* one row reshaped to (x, y) pairs, and the norm of each pair
NormPairs(row) ==
    LET pairs == ReshapePairs(row)
    IN  [k \in 1 .. Len(pairs) |-> Norm2(pairs[k])]

\* torch.diff(predictions, dim=0)
Diff(predictions) ==
    [t \in 1 .. (Len(predictions) - 1) |->
        [c \in 1 .. Len(predictions[t]) |->
            RSub(predictions[t + 1][c], predictions[t][c])]]

\* TemporalLoss.compute_loss; reshaping no rows to (0, -1, 2) fails
TemporalLoss_compute_loss(predictions) ==
    LET diffs == Diff(predictions)
    IN  IF Len(diffs) = 0 THEN Raise("RuntimeError")
        ELSE Ok([t \in 1 .. Len(diffs) |-> NormPairs(diffs[t])])

\* lightning_pose.utils.pca.compute_pca_reprojection_error: centre, project
\* on the kept axes and back, and return the norm of what is left of each
\* (x, y) pair
compute_pca_reprojection_error(clean_pca_arr, kept_eigenvectors, mean) ==
    LET diff(row) == [c \in 1 .. Len(row) |->
                         IF c <= kept_eigenvectors THEN R(0)
                         ELSE RSub(row[c], mean)]
    IN  [r \in 1 .. Len(clean_pca_arr) |->
            NormPairs(diff(clean_pca_arr[r]))]

\* lightning_pose.utils.pca.format_multiview_data_for_pca: from (batch, K, 2)
\* to one row per frame and matched keypoint, the views side by side
format_multiview_data_for_pca(data_arr, mirrored_column_matches) ==
    LET n_views == Len(mirrored_column_matches)
        n_keypoints == Len(mirrored_column_matches[1])
        row(b, g) == Flatten([v \in 1 .. n_views |->
                         data_arr[b][mirrored_column_matches[v][g]]])
    IN  Flatten([b \in 1 .. Len(data_arr) |->
                    [g \in 1 .. n_keypoints |-> row(b, g)]])

\* PCALoss.compute_loss
PCALoss_compute_loss(self, predictions) ==
    Ok(compute_pca_reprojection_error(predictions,
           self.pca.kept_eigenvectors, self.pca.mean))

\* value of the synthetic bump at squared distance d2 from its centre
Bump(d2) == IF RLt(d2, R(1)) THEN R(1)
            ELSE IF RLt(d2, R(2)) THEN Rat(1, 2) ELSE R(0)

\* lightning_pose.data.utils.generate_heatmaps: one single-peaked slice per
\* keypoint, on a grid of one row of NumPixels pixels; pixel j is at (j-1, 0)
generate_heatmaps(keypoints) ==
    [b \in 1 .. Len(keypoints) |->
        [k \in 1 .. Len(keypoints[b]) |->
            [j \in 1 .. NumPixels |->
                Bump(RAdd(SqErr(keypoints[b][k][1], R(j - 1)),
                          SqErr(keypoints[b][k][2], R(0))))]]]

\* UnimodalLoss.compute_loss
UnimodalLoss_compute_loss(self, targets, predictions) ==
    IF self.loss_name = "unimodal_mse"
    THEN Ok([b \in 1 .. Len(targets) |->
                [k \in 1 .. Len(targets[b]) |->
                    MseLoss(targets[b][k], predictions[b][k])]])
    ELSE IF self.loss_name = "unimodal_wasserstein"
    THEN LET targets_rs == Flatten(targets)
             predictions_rs == Flatten(predictions)
         IN  Ok([i \in 1 .. Len(targets_rs) |->
                    SamplesLoss(targets_rs[i], predictions_rs[i])])
    ELSE Raise("NotImplementedError")

\* a variant of Loss.rectify_epsilon that also zeroes the elements equal
\* to epsilon
rectify_epsilon_AtOrBelow(self, loss) ==
    [i \in 1 .. Len(loss) |->
        IF RLt(self.epsilon, loss[i]) \/ IsNaN(loss[i]) THEN loss[i] ELSE R(0)]

\* Loss.rectify_epsilon, on the elements of the loss tensor
rectify_epsilon(self, loss) ==
    [i \in 1 .. Len(loss) |->
        IF RLt(loss[i], self.epsilon) THEN R(0) ELSE loss[i]]

\* a variant of Loss.reduce_loss that falls back to the mean
reduce_loss_FallsBack(self, loss, method) ==
    IF method = "sum" THEN Ok(Sum(loss)) ELSE Ok(Mean(loss))

\* Loss.reduce_loss, on the elements of the loss tensor
reduce_loss(self, loss, method) ==
    CASE method = "mean" -> Ok(Mean(loss))
      [] method = "sum" -> Ok(Sum(loss))
      [] OTHER -> Raise("KeyError")

\* a variant of Loss.log_loss that prefixes the weight record with the stage
log_loss_StagedWeight(self, loss, stage) ==
    IF stage \notin Stages THEN Raise("TypeError")
    ELSE Ok(<<[name |-> stage \o "_" \o self.loss_name \o "_loss",
               value |-> loss, prog_bar |-> TRUE],
              [name |-> stage \o "_" \o self.loss_name \o "_weight",
               value |-> weight(self)]>>)

\* Loss.log_loss; @typechecked refuses a stage that is not train, val, test
log_loss(self, loss, stage) ==
    IF stage \notin Stages THEN Raise("TypeError")
    ELSE LET loss_dict == [name |-> stage \o "_" \o self.loss_name \o "_loss",
                           value |-> loss, prog_bar |-> TRUE]
             weight_dict == [name |-> self.loss_name \o "_weight",
                             value |-> weight(self)]
         IN  Ok(<<loss_dict, weight_dict>>)

---------------------------------------------------------------------------
(* __call__: the statements of each class's __call__ body, run in order.   *)
(* A frame holds the arguments, the locals assigned so far, the statements *)
(* run (trace) and, once the body returned, the result.                    *)

\* a variant of HeatmapLoss.__call__ that reduces before it computes
HeatmapLoss_call_body_ReducesFirst ==
    <<"remove_nans", "reduce_loss", "compute_loss", "log_loss", "return">>

\* HeatmapLoss.__call__ (HeatmapMSELoss, HeatmapWassersteinLoss)
HeatmapLoss_call_body ==
    <<"remove_nans", "compute_loss", "reduce_loss", "log_loss", "return">>

PCALoss_call_body ==
    <<"format_multiview", "compute_loss", "rectify_epsilon", "reduce_loss",
      "log_loss", "return">>

TemporalLoss_call_body ==
    <<"compute_loss", "rectify_epsilon", "reduce_loss", "log_loss", "return">>

\* a variant of UnimodalLoss.__call__ that rectifies its loss
UnimodalLoss_call_body_Rectifies ==
    <<"generate_heatmaps", "compute_loss", "rectify_epsilon", "reduce_loss",
      "log_loss", "return">>

UnimodalLoss_call_body ==
    <<"generate_heatmaps", "compute_loss", "reduce_loss", "log_loss", "return">>

\* RegressionMSELoss.__call__ (inherited by RegressionRMSELoss)
RegressionMSELoss_call_body ==
    <<"remove_nans", "compute_loss", "reduce_loss", "log_loss", "return">>

CallBody(cls) ==
    CASE cls \in HeatmapClasses -> HeatmapLoss_call_body
      [] cls = "PCALoss" -> PCALoss_call_body
      [] cls = "TemporalLoss" -> TemporalLoss_call_body
      [] cls = "UnimodalLoss" -> UnimodalLoss_call_body
      [] cls \in RegressionClasses -> RegressionMSELoss_call_body

\* (batch, 2K) -> (batch, K, 2)
ReshapeKeypoints(keypoints) ==
    [b \in 1 .. Len(keypoints) |-> ReshapePairs(keypoints[b])]

NewFrame(args) ==
    [op |-> "__call__", args |-> args, trace |-> <<>>, error |-> "",
     returned |-> FALSE,
     targets |-> <<>>, predictions |-> <<>>,
     elementwise_loss |-> <<>>, epsilon_insensitive_loss |-> <<>>,
     reduce_method |-> None, scalar_loss |-> NaN, logs |-> <<>>,
     result |-> [scalar |-> NaN, logs |-> <<>>]]

\* self.remove_nans(targets=..., predictions=...) of a __call__ body
StmtRemoveNans(self, fr) ==
    LET r == IF self.cls \in HeatmapClasses
             THEN HeatmapLoss_remove_nans(fr.args.heatmaps_targ, fr.args.heatmaps_pred)
             ELSE RegressionMSELoss_remove_nans(fr.args.keypoints_targ,
                                                fr.args.keypoints_pred)
    IN  [fr EXCEPT !.targets = r.value.targets,
                   !.predictions = r.value.predictions]

\* the statements of PCALoss.__call__ before compute_loss
StmtFormatMultiview(self, fr) ==
    IF self.loss_name = "pca_multiview"
    THEN [fr EXCEPT !.predictions =
             format_multiview_data_for_pca(
                 ReshapeKeypoints(fr.args.keypoints_pred),
                 self.pca.mirrored_column_matches)]
    ELSE IF self.loss_name = "pca_singleview"
    THEN [fr EXCEPT !.predictions = fr.args.keypoints_pred]
    ELSE [fr EXCEPT !.error = "NotImplementedError"]

\* the statements of UnimodalLoss.__call__ before compute_loss
StmtGenerateHeatmaps(self, fr) ==
    [fr EXCEPT !.targets =
                   generate_heatmaps(ReshapeKeypoints(fr.args.keypoints_pred)),
               !.predictions = fr.args.heatmaps_pred]

\* elementwise_loss = self.compute_loss(...); the frame keeps the elements
\* of the loss tensor in row-major order
StmtComputeLoss(self, fr) ==
    LET r == CASE self.cls = "HeatmapMSELoss" ->
                    HeatmapMSELoss_compute_loss(fr.targets, fr.predictions)
               [] self.cls = "HeatmapWassersteinLoss" ->
                    HeatmapWassersteinLoss_compute_loss(fr.targets, fr.predictions)
               [] self.cls = "PCALoss" ->
                    PCALoss_compute_loss(self, fr.predictions)
               [] self.cls = "TemporalLoss" ->
                    TemporalLoss_compute_loss(fr.args.keypoints_pred)
               [] self.cls = "UnimodalLoss" ->
                    UnimodalLoss_compute_loss(self, fr.targets, fr.predictions)
               [] self.cls = "RegressionMSELoss" ->
                    RegressionMSELoss_compute_loss(fr.targets, fr.predictions)
               [] self.cls = "RegressionRMSELoss" ->
                    RegressionRMSELoss_compute_loss(fr.targets, fr.predictions)
        elements ==
            CASE self.cls \in {"HeatmapMSELoss", "PCALoss", "TemporalLoss"} ->
                    Flatten(r.value)
              [] self.cls = "UnimodalLoss" /\ self.loss_name = "unimodal_mse" ->
                    Flatten(Flatten(r.value))
              [] OTHER -> r.value
    IN  IF r.error # "" THEN [fr EXCEPT !.error = r.error]
        ELSE [fr EXCEPT !.elementwise_loss = elements]

\* epsilon_insensitive_loss = self.rectify_epsilon(loss=elementwise_loss)
StmtRectifyEpsilon(self, fr) ==
    [fr EXCEPT !.epsilon_insensitive_loss =
                   rectify_epsilon(self, fr.elementwise_loss)]

\* scalar_loss = self.reduce_loss(..., method="mean"): of the rectified
\* loss where the body rectifies, of the elementwise loss elsewhere
StmtReduceLoss(self, fr) ==
    LET loss == IF self.cls \in {"PCALoss", "TemporalLoss"}
                THEN fr.epsilon_insensitive_loss ELSE fr.elementwise_loss
        method == "mean"
        r == reduce_loss(self, loss, method)
    IN  IF r.error # "" THEN [fr EXCEPT !.error = r.error, !.reduce_method = method]
        ELSE [fr EXCEPT !.scalar_loss = r.value, !.reduce_method = method]

\* logs = self.log_loss(loss=scalar_loss, stage=stage)
StmtLogLoss(self, fr) ==
    LET r == log_loss(self, fr.scalar_loss, fr.args.stage)
    IN  IF r.error # "" THEN [fr EXCEPT !.error = r.error]
        ELSE [fr EXCEPT !.logs = r.value]

\* a variant of the return statement that forgets the weight
StmtReturn_Unweighted(self, fr) ==
    [fr EXCEPT !.returned = TRUE,
               !.result = [scalar |-> fr.scalar_loss, logs |-> fr.logs]]

\* return self.weight * scalar_loss, logs
StmtReturn(self, fr) ==
    [fr EXCEPT !.returned = TRUE,
               !.result = [scalar |-> RMul(weight(self), fr.scalar_loss),
                           logs |-> fr.logs]]

ExecStmt(self, stmt, fr) ==
    LET fr1 == [fr EXCEPT !.trace = Append(fr.trace, stmt)]
    IN  CASE stmt = "remove_nans" -> StmtRemoveNans(self, fr1)
          [] stmt = "format_multiview" -> StmtFormatMultiview(self, fr1)
          [] stmt = "generate_heatmaps" -> StmtGenerateHeatmaps(self, fr1)
          [] stmt = "compute_loss" -> StmtComputeLoss(self, fr1)
          [] stmt = "rectify_epsilon" -> StmtRectifyEpsilon(self, fr1)
          [] stmt = "reduce_loss" -> StmtReduceLoss(self, fr1)
          [] stmt = "log_loss" -> StmtLogLoss(self, fr1)
          [] stmt = "return" -> StmtReturn(self, fr1)

\* run the statements until one raises or the body returns
RECURSIVE RunBody(_, _, _)
RunBody(self, body, fr) ==
    IF body = <<>> \/ fr.error # "" \/ fr.returned THEN fr
    ELSE RunBody(self, Tail(body), ExecStmt(self, Head(body), fr))

Loss_call(self, args) == RunBody(self, CallBody(self.cls), NewFrame(args))

\* a variant of __call__ that stores a learned log_weight: one more ln 2
Loss_call_self_Learns(self, args) ==
    [self EXCEPT !.log_weight = self.log_weight + 1]

\* a variant of __call__ that stores the epsilon it has used, plus one
Loss_call_self_StoresEpsilon(self, args) ==
    [self EXCEPT !.epsilon = RAdd(self.epsilon, R(1))]

\* the instance as __call__ leaves it: no statement of a __call__ body, nor
\* of remove_nans, compute_loss, rectify_epsilon, reduce_loss, log_loss or
\* weight, assigns an attribute of self; F.threshold, masked_select and
\* reshape return new tensors
Loss_call_self(self, args) == self

\* a variant of __call__ in which the PCA loss refits its subspace
Loss_call_fits_Refits(self, args) == IF self.cls = "PCALoss" THEN 1 ELSE 0

\* the number of times __call__ runs the fit self.pca(): compute_loss reads
\* self.pca.parameters, and self.pca() is called by PCALoss.__init__ only
Loss_call_fits(self, args) == 0

---------------------------------------------------------------------------
(* The inputs the model draws                                              *)

Shapes == (1 .. MaxBatch) \X (1 .. MaxKp)

\* where a keypoint may be predicted; keypoint k of a frame lies at k times
\* the frame's point
Points == {<<0, 0>>, <<3, 4>>, <<1, 0>>}

PredRow(p, K) == Flatten([k \in 1 .. K |-> <<R(k * p[1]), R(k * p[2])>>])

KeypointPreds(B, K) ==
    {[b \in 1 .. B |-> PredRow(f[b], K)] : f \in [1 .. B -> Points]}

\* the first frame at one point, the later frames at another
KeypointPredsCall(B, K) ==
    {[b \in 1 .. B |-> PredRow(IF b = 1 THEN p ELSE q, K)] :
        p \in Points, q \in Points}

\* the columns of a target row that are not-a-number: none, the first x,
\* the last y, all
NanMasks(K) == {{}, {1}, {2 * K}, 1 .. (2 * K)}

TargetRow(b, K, M) == [c \in 1 .. (2 * K) |-> IF c \in M THEN NaN ELSE R(b - 1)]

KeypointTargets(B, K) ==
    {[b \in 1 .. B |-> TargetRow(b, K, m[b])] : m \in [1 .. B -> NanMasks(K)]}

KeypointTargetsCall(B, K) ==
    {[b \in 1 .. B |-> TargetRow(b, K, IF b = 1 THEN m ELSE {})] :
        m \in NanMasks(K) \cup {{1, 2 * K}}}
    \cup {[b \in 1 .. B |-> TargetRow(b, K, 1 .. (2 * K))]}

ZeroSlice == [j \in 1 .. NumPixels |-> R(0)]
HotSlice(c) == [j \in 1 .. NumPixels |-> IF j = 1 THEN R(c) ELSE R(0)]
ConstSlice(c) == [j \in 1 .. NumPixels |-> R(c)]

\* a number that names the slice (b, k)
Code(b, k, K) == (b - 1) * K + k

\* the slices of a row that are all zero: none, the first, the last, all
ZeroMasks(K) == {{}, {1}, {K}, 1 .. K}

HeatmapTargetRow(b, K, Z) ==
    [k \in 1 .. K |-> IF k \in Z THEN ZeroSlice ELSE HotSlice(Code(b, k, K))]

HeatmapPredRow(b, K, Z) ==
    [k \in 1 .. K |-> IF k \in Z THEN ZeroSlice ELSE ConstSlice(Code(b, k, K))]

HeatmapTargets(B, K) ==
    {[b \in 1 .. B |-> HeatmapTargetRow(b, K, z[b])] :
        z \in [1 .. B -> ZeroMasks(K)]}

HeatmapPreds(B, K) ==
    {[b \in 1 .. B |-> HeatmapPredRow(b, K, z)] : z \in ZeroMasks(K)}

HeatmapTargetsCall(B, K) ==
    {[b \in 1 .. B |-> HeatmapTargetRow(b, K, IF b = 1 THEN z ELSE {})] :
        z \in ZeroMasks(K)}
    \cup {[b \in 1 .. B |-> HeatmapTargetRow(b, K, 1 .. K)]}

HeatmapPredsCall(B, K) ==
    {[b \in 1 .. B |-> HeatmapPredRow(b, K, {})],
     [b \in 1 .. B |-> HeatmapTargetRow(b, K, {})]}

\* the stage argument of __call__ and log_loss; None when it is omitted
StageArgs == Stages \cup {None}

\* the arguments the model passes to __call__
CallArgs(self) ==
    CASE self.cls \in HeatmapClasses ->
            UNION {[heatmaps_targ : HeatmapTargetsCall(sh[1], sh[2]),
                    heatmaps_pred : HeatmapPredsCall(sh[1], sh[2]),
                    stage : StageArgs] : sh \in Shapes}
      [] self.cls \in RegressionClasses ->
            UNION {[keypoints_targ : KeypointTargetsCall(sh[1], sh[2]),
                    keypoints_pred : {[b \in 1 .. sh[1] |-> PredRow(p, sh[2])] :
                                          p \in Points},
                    stage : StageArgs] : sh \in Shapes}
      [] self.cls = "TemporalLoss" ->
            UNION {[keypoints_pred : KeypointPredsCall(sh[1], sh[2]),
                    stage : StageArgs] : sh \in Shapes}
      [] self.cls = "PCALoss" ->
            UNION {[keypoints_pred : KeypointPredsCall(sh[1], sh[2]),
                    stage : StageArgs] :
                   sh \in {x \in Shapes : self.loss_name = "pca_multiview" => x[2] >= 2}}
      [] self.cls = "UnimodalLoss" ->
            UNION {[keypoints_pred : {[b \in 1 .. sh[1] |-> PredRow(p, sh[2])] :
                                          p \in Points},
                    heatmaps_pred : HeatmapPredsCall(sh[1], sh[2]),
                    stage : StageArgs] : sh \in Shapes}

\* the loss tensors the model passes to rectify_epsilon: one or two elements
\* between -1/2 and MaxEps + 1/2, or not-a-number
LossVals == {Rat(x, 2) : x \in (-1) .. (2 * MaxEps + 1)} \cup {NaN}
LossTensors == {<<v>> : v \in LossVals} \cup {<<v, w>> : v \in LossVals, w \in LossVals}

\* the loss tensors the model passes to reduce_loss, the empty one among them
ReduceVals == {R(0), R(1), Rat(1, 2)}
ReduceTensors == {<<>>} \cup {<<v>> : v \in ReduceVals}
                    \cup {<<v, w>> : v \in ReduceVals, w \in ReduceVals}
ReduceMethods == {"mean", "sum", "max"}

\* predictions whose elements are all different: element c of row b is
\* (b-1)*2K + c
CodedPreds(B, K) ==
    [b \in 1 .. B |-> [c \in 1 .. (2 * K) |-> R((b - 1) * 2 * K + c)]]

SamePointPreds(B, K) == {[b \in 1 .. B |-> PredRow(p, K)] : p \in Points}

\* the arguments the model passes to remove_nans
RemoveNansArgs(self) ==
    CASE self.cls \in HeatmapClasses ->
            UNION {[targets : HeatmapTargets(sh[1], sh[2]),
                    predictions : HeatmapPreds(sh[1], sh[2])] : sh \in Shapes}
      [] self.cls \in RegressionClasses ->
            UNION {[targets : KeypointTargets(sh[1], sh[2]),
                    predictions : {CodedPreds(sh[1], sh[2])}] : sh \in Shapes}
      [] OTHER -> {[targets |-> t, predictions |-> CodedPreds(1, 1)] :
                      t \in {<<>>, CodedPreds(1, 1)}}

\* the arguments the model passes to compute_loss
ComputeLossArgs(self) ==
    CASE self.cls \in HeatmapClasses ->
            {HeatmapLoss_remove_nans(a.heatmaps_targ, a.heatmaps_pred).value :
                a \in CallArgs(self)}
      [] self.cls \in RegressionClasses ->
            UNION {{RegressionMSELoss_remove_nans(t, p).value :
                       t \in KeypointTargets(sh[1], sh[2]),
                       p \in SamePointPreds(sh[1], sh[2])} : sh \in Shapes}
      [] self.cls = "TemporalLoss" ->
            UNION {[targets : {<<>>}, predictions : KeypointPreds(sh[1], sh[2])] :
                      sh \in Shapes}
      [] self.cls = "PCALoss" ->
            {[targets |-> <<>>,
              predictions |-> StmtFormatMultiview(self, NewFrame(a)).predictions] :
                a \in CallArgs(self)}
      [] self.cls = "UnimodalLoss" ->
            {[targets |-> generate_heatmaps(ReshapeKeypoints(a.keypoints_pred)),
              predictions |-> a.heatmaps_pred] : a \in CallArgs(self)}

\* self.compute_loss(...) of each class
compute_loss(self, targets, predictions) ==
    CASE self.cls = "HeatmapMSELoss" ->
            HeatmapMSELoss_compute_loss(targets, predictions)
      [] self.cls = "HeatmapWassersteinLoss" ->
            HeatmapWassersteinLoss_compute_loss(targets, predictions)
      [] self.cls = "PCALoss" -> PCALoss_compute_loss(self, predictions)
      [] self.cls = "TemporalLoss" -> TemporalLoss_compute_loss(predictions)
      [] self.cls = "UnimodalLoss" ->
            UnimodalLoss_compute_loss(self, targets, predictions)
      [] self.cls = "RegressionMSELoss" ->
            RegressionMSELoss_compute_loss(targets, predictions)
      [] self.cls = "RegressionRMSELoss" ->
            RegressionRMSELoss_compute_loss(targets, predictions)

\* self.remove_nans(...) of each class
remove_nans(self, targets, predictions) ==
    CASE self.cls \in HeatmapClasses ->
            HeatmapLoss_remove_nans(targets, predictions)
      [] self.cls \in RegressionClasses ->
            RegressionMSELoss_remove_nans(targets, predictions)
      [] OTHER -> Pass_remove_nans

---------------------------------------------------------------------------
(* The state machine                                                       *)

NoFrame == [op |-> "none", error |-> ""]

\* the calls the history may keep as the earlier call: those with stage
\* train on a batch of MaxBatch frames of MaxKp keypoints
RememberedArgs(self) ==
    {a \in CallArgs(self) :
        /\ a.stage = "train"
        /\ IF self.cls \in HeatmapClasses
           THEN Len(a.heatmaps_pred) = MaxBatch
                /\ Len(a.heatmaps_pred[1]) = MaxKp
           ELSE Len(a.keypoints_pred) = MaxBatch
                /\ Len(a.keypoints_pred[1]) = 2 * MaxKp}

\* state of the earlier call: "off" (none is kept), "awaiting" (the next
\* call of RememberedArgs is kept) or "recorded"
NoFirst(state) == [state |-> state, args |-> <<>>, outcome |-> NoFrame]

\* nothing constructed yet; between: a different call was made after the
\* recorded one; again: the frame is a repetition of the recorded call
NoHist(state) ==
    [constructed |-> NoInst, fits |-> 0, first |-> NoFirst(state),
     between |-> FALSE, again |-> FALSE]

\* the history after the call self(args) with outcome fr
HistAfterCall(h, self, args, fr) ==
    LET counted == [h EXCEPT !.fits = h.fits + Loss_call_fits(self, args)]
    IN  CASE h.first.state = "awaiting" /\ args \in RememberedArgs(self) ->
                [counted EXCEPT !.first = [state |-> "recorded", args |-> args,
                                           outcome |-> fr]]
          [] h.first.state = "recorded" /\ args = h.first.args ->
                [counted EXCEPT !.again = TRUE]
          [] h.first.state = "recorded" /\ args # h.first.args ->
                [counted EXCEPT !.between = TRUE]
          [] OTHER -> counted

Init ==
    /\ inst = NoInst
    /\ pc = "new"
    /\ frame = NoFrame
    /\ hist = NoHist("off")

\* the same, with the history set to keep one earlier call
InitTwice ==
    /\ inst = NoInst
    /\ pc = "new"
    /\ frame = NoFrame
    /\ hist = NoHist("awaiting")

\* cls(**cfg): the constructor either raises, and there is no instance, or
\* returns the instance
Construct ==
    /\ pc = "new"
    /\ \E cls \in ConcreteClasses :
         \E cfg \in Configs(cls) :
           \E fit \in (IF cls = "PCALoss" THEN PcaFits ELSE {NoFit}) :
             IF cls = "PCALoss" /\ PCALoss_init_raises(cfg)
             THEN /\ inst' = NoInst
                  /\ pc' = "failed"
                  /\ frame' = [op |-> "__init__", cls |-> cls, args |-> cfg,
                               error |-> "ValueError", fits |-> 0]
                  /\ UNCHANGED hist
             ELSE /\ inst' = NewInstance(cls, cfg, fit)
                  /\ pc' = "done"
                  /\ frame' = [op |-> "__init__", cls |-> cls, args |-> cfg,
                               error |-> "",
                               fits |-> IF cls = "PCALoss" THEN 1 ELSE 0]
                  /\ hist' = [hist EXCEPT
                                 !.constructed = NewInstance(cls, cfg, fit),
                                 !.fits = IF cls = "PCALoss" THEN 1 ELSE 0]

\* loss(...): one whole __call__
Call ==
    /\ pc = "ready"
    /\ \E args \in CallArgs(inst) :
         /\ frame' = Loss_call(inst, args)
         /\ inst' = Loss_call_self(inst, args)
         /\ hist' = HistAfterCall(hist, inst, args, Loss_call(inst, args))
    /\ pc' = "done"

Invoked(op, args, r) ==
    [op |-> op, args |-> args, error |-> r.error, value |-> r.value]

\* loss.remove_nans(targets=..., predictions=...)
InvokeRemoveNans ==
    /\ pc = "ready"
    /\ \E a \in RemoveNansArgs(inst) :
         frame' = Invoked("remove_nans", a,
                          remove_nans(inst, a.targets, a.predictions))
    /\ pc' = "done"
    /\ UNCHANGED <<inst, hist>>

\* loss.compute_loss(...)
InvokeComputeLoss ==
    /\ pc = "ready"
    /\ \E a \in ComputeLossArgs(inst) :
         frame' = Invoked("compute_loss", a,
                          compute_loss(inst, a.targets, a.predictions))
    /\ pc' = "done"
    /\ UNCHANGED <<inst, hist>>

\* loss.rectify_epsilon(loss=...)
InvokeRectifyEpsilon ==
    /\ pc = "ready"
    /\ \E loss \in LossTensors :
         frame' = Invoked("rectify_epsilon", [loss |-> loss],
                          Ok(rectify_epsilon(inst, loss)))
    /\ pc' = "done"
    /\ UNCHANGED <<inst, hist>>

\* loss.reduce_loss(loss, method=...)
InvokeReduceLoss ==
    /\ pc = "ready"
    /\ \E loss \in ReduceTensors, method \in ReduceMethods :
         frame' = Invoked("reduce_loss", [loss |-> loss, method |-> method],
                          reduce_loss(inst, loss, method))
    /\ pc' = "done"
    /\ UNCHANGED <<inst, hist>>

\* loss.log_loss(loss=..., stage=...)
InvokeLogLoss ==
    /\ pc = "ready"
    /\ \E loss \in ReduceVals \cup {NaN}, stage \in StageArgs :
         frame' = Invoked("log_loss", [loss |-> loss, stage |-> stage],
                          log_loss(inst, loss, stage))
    /\ pc' = "done"
    /\ UNCHANGED <<inst, hist>>

\* loss.weight
ReadWeight ==
    /\ pc = "ready"
    /\ frame' = Invoked("weight", [log_weight |-> inst.log_weight],
                        Ok(weight(inst)))
    /\ pc' = "done"
    /\ UNCHANGED <<inst, hist>>

\* the caller has taken what the invocation returned or raised; the
\* instance is ready for the next invocation
Continue ==
    /\ pc = "done"
    /\ pc' = "ready"
    /\ frame' = NoFrame
    /\ hist' = [hist EXCEPT !.again = FALSE]
    /\ UNCHANGED inst

\* the names a caller looks up: the registered ones, the loss_name of the
\* two regression classes and of the base class
LookupNames == DOMAIN get_loss_classes \cup {"regression_mse", "rmse", "base"}

\* dict[key]
Subscript(dict, key) ==
    IF key \in DOMAIN dict THEN [error |-> "", value |-> dict[key]]
    ELSE [error |-> "KeyError", value |-> <<>>]

\* get_loss_classes()[name], before an instance is constructed
LookupLossClass ==
    /\ pc = "new"
    /\ \E name \in LookupNames :
         frame' = [op |-> "get_loss_classes", args |-> [name |-> name],
                   error |-> Subscript(get_loss_classes, name).error,
                   value |-> Subscript(get_loss_classes, name).value]
    /\ pc' = "returned"
    /\ UNCHANGED <<inst, hist>>

---------------------------------------------------------------------------
(* The dataset and the training script.  Labels are (frames, keypoints, 2) *)
(* arrays: a sequence of frames, each a sequence of <<x, y>>.  A heatmap    *)
(* slice is the sequence of its out_height x out_width pixels, row by row. *)

MaxDataLen == 40

\* np.exp(g) for g <= 0, by the rational 1 / (1 - g): 1 at 0, above 0 and
\* growing with g, as exp is
NpExp(g) == RDiv(R(1), RSub(R(1), g))

\* self.output_sigma
OutputSigma == Rat(5, 4)

\* self.output_shape and the (height, width) of the transformed image
OutputShape == <<1, NumPixels>>
ImageSizes == {<<1, NumPixels>>, <<2, 2 * NumPixels>>}

\* xx and yy of np.meshgrid at pixel j
PixelX(j, out_width) == (j - 1) % out_width
PixelY(j, out_width) == (j - 1) \div out_width

\* draw_keypoints: the gaussian of one keypoint at pixel j
Gaussian(keypoint, j, out_width, sigma) ==
    LET dy == RSub(R(PixelY(j, out_width)), keypoint[2])
        dx == RSub(R(PixelX(j, out_width)), keypoint[1])
        gaussian == RAdd(RMul(dy, dy), RMul(dx, dx))
    IN  NpExp(RDiv(RMul(gaussian, R(-1)), RMul(R(2), RMul(sigma, sigma))))

\* a variant of draw_keypoints that draws every keypoint
draw_keypoints_NoNanCheck(keypoints, height, width, output_shape, sigma) ==
    LET out_height == output_shape[1]
        out_width == output_shape[2]
        copy == [idx \in 1 .. Len(keypoints) |->
                    <<RMul(keypoints[idx][1], Rat(out_width, width)),
                      RMul(keypoints[idx][2], Rat(out_height, height))>>]
    IN  [confidence |->
             [idx \in 1 .. Len(keypoints) |->
                 [j \in 1 .. (out_height * out_width) |->
                     Gaussian(copy[idx], j, out_width, sigma)]],
         keypoints |-> keypoints]

\* draw_keypoints: confidence[..., idx] for every keypoint, and the caller's
\* array after the call (the function scales a copy)
draw_keypoints(keypoints, height, width, output_shape, sigma) ==
    LET out_height == output_shape[1]
        out_width == output_shape[2]
        copy == [idx \in 1 .. Len(keypoints) |->
                    <<RMul(keypoints[idx][1], Rat(out_width, width)),
                      RMul(keypoints[idx][2], Rat(out_height, height))>>]
    IN  [confidence |->
             [idx \in 1 .. Len(keypoints) |->
                 [j \in 1 .. (out_height * out_width) |->
                     IF IsNaN(copy[idx][1]) \/ IsNaN(copy[idx][2])
                     THEN R(0)
                     ELSE Gaussian(copy[idx], j, out_width, sigma)]],
         keypoints |-> keypoints]

\* DLCHeatmapDataset.compute_heatmaps: one draw_keypoints per frame, then
\* permute(0, 3, 1, 2) to (frames, keypoints, height, width)
compute_heatmaps(labels, height, width, output_shape, sigma) ==
    [label_heatmaps |->
         [b \in 1 .. Len(labels) |->
             draw_keypoints(labels[b], height, width, output_shape, sigma).confidence],
     labels |->
         [b \in 1 .. Len(labels) |->
             draw_keypoints(labels[b], height, width, output_shape, sigma).keypoints]]

\* torch.where(mask)[0], counting from 1
RECURSIVE Where(_)
Where(mask) ==
    IF mask = <<>> THEN <<>>
    ELSE LET front == Where(SubSeq(mask, 1, Len(mask) - 1))
         IN  IF mask[Len(mask)] THEN Append(front, Len(mask)) ELSE front

\* DLCHeatmapDataset.get_fully_labeled_idxs
get_fully_labeled_idxs(labels) ==
    LET nan_check == [b \in 1 .. Len(labels) |->
                         [k \in 1 .. Len(labels[b]) |-> ~IsNaN(labels[b][k][1])]]
        annotated == [b \in 1 .. Len(labels) |->
                         \A k \in 1 .. Len(nan_check[b]) : nan_check[b][k]]
    IN  Where(annotated)

\* DLCHeatmapDataset.__init__, the noNans block
DLCHeatmapDataset_init(image_names, labels, noNans) ==
    IF noNans
    THEN LET fully_labeled_idxs == get_fully_labeled_idxs(labels)
         IN  [image_names |-> [i \in 1 .. Len(fully_labeled_idxs) |->
                                  image_names[fully_labeled_idxs[i]]],
              labels |-> [i \in 1 .. Len(fully_labeled_idxs) |->
                             labels[fully_labeled_idxs[i]]]]
    ELSE [image_names |-> image_names, labels |-> labels]

\* round(datalen * tenths / 10) of Python: the nearest integer; half way
\* the float product is at or just off the half and goes either way
PyRound(datalen, tenths, up) ==
    LET q == (datalen * tenths) \div 10
        r == (datalen * tenths) % 10
    IN  IF r < 5 THEN q ELSE IF r > 5 THEN q + 1 ELSE IF up THEN q + 1 ELSE q

\* torch.utils.data.random_split, by the lengths of the subsets
random_split(datalen, lengths) ==
    IF lengths[1] + lengths[2] + lengths[3] # datalen
    THEN [error |-> "ValueError", value |-> <<>>]
    ELSE [error |-> "", value |-> lengths]

\* a variant of TrackingDataModule.setup without the correction by one
TrackingDataModule_setup_Uncorrected(datalen, mode, up) ==
    IF mode = "deterministic" THEN [error |-> "", value |-> <<>>]
    ELSE random_split(datalen, <<PyRound(datalen, 8, up),
                                 PyRound(datalen, 1, up),
                                 PyRound(datalen, 1, up)>>)

\* TrackingDataModule.setup
TrackingDataModule_setup(datalen, mode, up) ==
    LET train == PyRound(datalen, 8, up)
        valid == PyRound(datalen, 1, up)
        test == PyRound(datalen, 1, up)
    IN  IF mode = "deterministic" THEN [error |-> "", value |-> <<>>]
        ELSE IF train + valid + test > datalen
        THEN random_split(datalen, <<train - 1, valid, test>>)
        ELSE IF train + valid + test < datalen
        THEN random_split(datalen, <<train + 1, valid, test>>)
        ELSE random_split(datalen, <<train, valid, test>>)

\* get_model of scripts/train_hydra.py: `return model` is the last statement
\* of the semi-supervised branch; the other branch runs off the end
get_model(semi_supervised, model_type) ==
    IF ~semi_supervised
    THEN IF model_type \in {"regression", "heatmap"}
         THEN [error |-> "", value |-> None]
         ELSE [error |-> "NotImplementedError", value |-> <<>>]
    ELSE IF model_type = "regression"
         THEN [error |-> "", value |-> "SemiSupervisedRegressionTracker"]
         ELSE IF model_type = "heatmap"
         THEN [error |-> "", value |-> "SemiSupervisedHeatmapTracker"]
         ELSE [error |-> "NotImplementedError", value |-> <<>>]

\* labels of B frames of K keypoints: keypoint k sits at (k - 1, 0); in the
\* first frame each keypoint is labelled, or misses x, y or both
LabelChoices(k) ==
    {<<R(k - 1), R(0)>>, <<NaN, R(0)>>, <<R(k - 1), NaN>>, <<NaN, NaN>>}

HeatmapLabels(B, K) ==
    {[b \in 1 .. B |-> [k \in 1 .. K |->
          IF b = 1 THEN first[k] ELSE <<R(k - 1), R(0)>>]] :
        first \in [1 .. K -> UNION {LabelChoices(k) : k \in 1 .. K}]}

\* predictions whose slice (b, k) holds the number of the slice
CodedHeatmaps(B, K) ==
    [b \in 1 .. B |-> [k \in 1 .. K |-> ConstSlice(Code(b, k, K))]]

\* predictions that equal the label heatmap on every slice drawn from a
\* label and are 1 everywhere on the slices of the keypoints without one
PredictedHeatmaps(labels, label_heatmaps) ==
    [b \in 1 .. Len(labels) |-> [k \in 1 .. Len(labels[b]) |->
        IF IsNaN(labels[b][k][1]) \/ IsNaN(labels[b][k][2])
        THEN ConstSlice(1)
        ELSE label_heatmaps[b][k]]]

\* a frame of a dataset: labelled, keypoint 1 occluded, or the last
\* keypoint without its y
FrameKinds == {"labelled", "occluded", "no_y"}

FrameLabels(b, kind) ==
    [k \in 1 .. MaxKp |->
        IF kind = "occluded" /\ k = 1 THEN <<NaN, NaN>>
        ELSE IF kind = "no_y" /\ k = MaxKp THEN <<R(b), NaN>>
        ELSE <<R(b), R(k)>>]

DatasetLabels ==
    UNION {{[b \in 1 .. N |-> FrameLabels(b, kinds[b])] :
               kinds \in [1 .. N -> FrameKinds]} : N \in 1 .. MaxBatch}

ModelTypes == {"regression", "heatmap", "heatmap_mhcrnn"}

\* dataset.compute_heatmaps() and the heatmap loss of the label heatmaps
ComputeHeatmaps ==
    /\ pc = "new"
    /\ \E sh \in Shapes : \E labels \in HeatmapLabels(sh[1], sh[2]) :
         \E size \in ImageSizes :
           LET made == compute_heatmaps(labels, size[1], size[2],
                                        OutputShape, OutputSigma)
               loss == HeatmapMSELoss_init([loss_name |-> None, epsilon |-> R(0),
                                            log_weight |-> 0,
                                            mirrored_column_matches |-> <<>>])
               pred == CodedHeatmaps(sh[1], sh[2])
           IN  frame' = [op |-> "compute_heatmaps",
                         args |-> [labels |-> labels, height |-> size[1],
                                   width |-> size[2]],
                         error |-> "",
                         label_heatmaps |-> made.label_heatmaps,
                         labels |-> made.labels,
                         masked |-> HeatmapLoss_remove_nans(
                                        made.label_heatmaps, pred).value,
                         call |-> Loss_call(loss,
                                     [heatmaps_targ |-> made.label_heatmaps,
                                      heatmaps_pred |-> PredictedHeatmaps(
                                          labels, made.label_heatmaps),
                                      stage |-> "train"])]
    /\ pc' = "returned"
    /\ UNCHANGED <<inst, hist>>

\* DLCHeatmapDataset(..., noNans=...)
NewDataset ==
    /\ pc = "new"
    /\ \E labels \in DatasetLabels : \E noNans \in BOOLEAN :
         LET image_names == [b \in 1 .. Len(labels) |-> b]
             made == DLCHeatmapDataset_init(image_names, labels, noNans)
         IN  frame' = [op |-> "DLCHeatmapDataset",
                       args |-> [image_names |-> image_names,
                                 labels |-> labels, noNans |-> noNans],
                       error |-> "",
                       image_names |-> made.image_names,
                       labels |-> made.labels]
    /\ pc' = "returned"
    /\ UNCHANGED <<inst, hist>>

\* data_module.setup()
Setup ==
    /\ pc = "new"
    /\ \E datalen \in 1 .. MaxDataLen : \E mode \in {"random", "deterministic"} :
         \E up \in BOOLEAN :
           frame' = [op |-> "setup",
                     args |-> [datalen |-> datalen, mode |-> mode],
                     error |-> TrackingDataModule_setup(datalen, mode, up).error,
                     value |-> TrackingDataModule_setup(datalen, mode, up).value]
    /\ pc' = "returned"
    /\ UNCHANGED <<inst, hist>>

\* get_model(cfg=cfg, ...) of train()
GetModel ==
    /\ pc = "new"
    /\ \E semi_supervised \in BOOLEAN : \E model_type \in ModelTypes :
         frame' = [op |-> "get_model",
                   args |-> [semi_supervised |-> semi_supervised,
                             model_type |-> model_type],
                   error |-> get_model(semi_supervised, model_type).error,
                   value |-> get_model(semi_supervised, model_type).value]
    /\ pc' = "returned"
    /\ UNCHANGED <<inst, hist>>

\* the caller has taken what the function returned or raised; no loss
\* instance is constructed yet
Resume ==
    /\ pc = "returned"
    /\ pc' = "new"
    /\ frame' = NoFrame
    /\ UNCHANGED <<inst, hist>>

Next ==
    \/ Construct
    \/ LookupLossClass
    \/ ComputeHeatmaps
    \/ NewDataset
    \/ Setup
    \/ GetModel
    \/ Resume
    \/ Call
    \/ InvokeRemoveNans
    \/ InvokeComputeLoss
    \/ InvokeRectifyEpsilon
    \/ InvokeReduceLoss
    \/ InvokeLogLoss
    \/ ReadWeight
    \/ Continue

Spec == Init /\ [][Next]_vars

\* the same program, with one earlier call kept in the history
SpecTwice == InitTwice /\ [][Next]_vars

---------------------------------------------------------------------------
(* Properties                                                              *)

IsCall == frame.op = "__call__"
Returned == IsCall /\ frame.returned

\* the stages of the documented flow, in its order
Flow == <<"remove_nans", "compute_loss", "rectify_epsilon", "reduce_loss",
          "log_loss", "return">>

FlowIndex(stage) == CHOOSE i \in 1 .. Len(Flow) : Flow[i] = stage

InFlow(stage) == \E i \in 1 .. Len(Flow) : Flow[i] = stage

\* the stages of the flow a call has run, in the order it ran them
FlowTrace(trace) == SelectSeq(trace, InFlow)

Ran(stage) == \E i \in 1 .. Len(frame.trace) : frame.trace[i] = stage

TimesRan(stage) == Cardinality({i \in 1 .. Len(frame.trace) : frame.trace[i] = stage})

\* C1, as stated: every call that returns has run remove_nans, compute_loss,
\* (rectify_epsilon,) reduce_loss, log_loss and return, each once, in this
\* order.
C1_AsStated ==
    Returned =>
        FlowTrace(frame.trace) \in
            {<<"remove_nans", "compute_loss", "reduce_loss", "log_loss", "return">>,
             <<"remove_nans", "compute_loss", "rectify_epsilon", "reduce_loss",
               "log_loss", "return">>}

\* C1, amended: the stages a call runs are run in the order of the flow,
\* none twice; a call that returns has run compute_loss, reduce_loss with
\* method mean, log_loss and return once each; remove_nans is run, first
\* and once, by the heatmap and regression variants and not at all by the
\* PCA, temporal and unimodal variants.
C1_StageOrder ==
    IsCall =>
        LET ft == FlowTrace(frame.trace)
        IN  /\ \A i \in 1 .. Len(ft), j \in 1 .. Len(ft) :
                  i < j => FlowIndex(ft[i]) < FlowIndex(ft[j])
            /\ Returned =>
                  /\ \A st \in {"compute_loss", "reduce_loss", "log_loss", "return"} :
                        TimesRan(st) = 1
                  /\ ft[Len(ft)] = "return"
                  /\ frame.reduce_method = "mean"
                  /\ TimesRan("remove_nans") =
                        (IF inst.cls \in HeatmapClasses \cup RegressionClasses
                         THEN 1 ELSE 0)
                  /\ Ran("remove_nans") => ft[1] = "remove_nans"

\* a temporal call has returned: it ran rectify_epsilon and no remove_nans
C1_Witness ==
    /\ Returned
    /\ inst.cls = "TemporalLoss"
    /\ FlowTrace(frame.trace) =
          <<"compute_loss", "rectify_epsilon", "reduce_loss", "log_loss", "return">>

\* the tensor a returned call reduced
Reduced == IF Ran("rectify_epsilon") THEN frame.epsilon_insensitive_loss
           ELSE frame.elementwise_loss

\* C2: the scalar a call returns is weight x s, where s, the value of the
\* first log entry, is the unweighted mean of the loss elements and weight,
\* the value of the second log entry, is 1/(2 exp(log_weight)).
C2_WeightedScalar ==
    Returned =>
        LET logs == frame.result.logs
            s == logs[1].value
            w == logs[2].value
        IN  /\ Len(logs) = 2
            /\ frame.result.scalar = RMul(w, s)
            /\ RMul(w, RMul(R(2), Exp(inst.log_weight))) = R(1)
            /\ s = (IF Len(Reduced) = 0 THEN NaN
                    ELSE RDiv(SeqSum(Reduced), R(Len(Reduced))))

\* a call returned a weighted scalar that differs from the unweighted mean
\* and is not zero, under a log_weight that is not the default
C2_Witness ==
    /\ Returned
    /\ inst.log_weight = 1
    /\ RLt(R(0), frame.result.scalar)
    /\ RLt(frame.result.scalar, frame.result.logs[1].value)

IsInvoked(op) == frame.op = op /\ frame.error = ""

\* slice (b, k) of a heatmap target has a pixel that is not zero
NonZeroSlice(T, b, k) == \E j \in 1 .. Len(T[b][k]) : T[b][k][j] # R(0)

KeptSlices(T) ==
    {bk \in (1 .. Len(T)) \X (1 .. Len(T[1])) : NonZeroSlice(T, bk[1], bk[2])}

\* batch-major, then keypoint
Before(x, y) == x[1] < y[1] \/ (x[1] = y[1] /\ x[2] <= y[2])

RankIn(S, x) == Cardinality({y \in S : Before(y, x)})

\* C3: HeatmapLoss.remove_nans returns as many targets and as many
\* predictions as there are slices whose target is not all zero; the i-th
\* of each is the target and the prediction of the i-th such slice in
\* batch-major, then keypoint order, whatever the prediction holds.
C3_HeatmapRemoveNans ==
    (IsInvoked("remove_nans") /\ inst.cls \in HeatmapClasses) =>
        LET T == frame.args.targets
            P == frame.args.predictions
            kept == KeptSlices(T)
            out == frame.value
        IN  /\ Len(out.targets) = Cardinality(kept)
            /\ Len(out.predictions) = Cardinality(kept)
            /\ \A bk \in kept :
                  /\ out.targets[RankIn(kept, bk)] = T[bk[1]][bk[2]]
                  /\ out.predictions[RankIn(kept, bk)] = P[bk[1]][bk[2]]

\* remove_nans dropped a slice, kept slices of two frames and of two
\* keypoints of one frame, and kept an all-zero prediction of a target that
\* is not all zero
C3_Witness ==
    /\ IsInvoked("remove_nans") /\ inst.cls \in HeatmapClasses
    /\ LET T == frame.args.targets
           P == frame.args.predictions
           kept == KeptSlices(T)
       IN  /\ Cardinality(kept) < Len(T) * Len(T[1])
           /\ \E x \in kept, y \in kept : x[1] # y[1]
           /\ \E x \in kept, y \in kept : x[1] = y[1] /\ x[2] # y[2]
           /\ \E x \in kept :
                 /\ P[x[1]][x[2]] = ZeroSlice
                 /\ frame.value.predictions[RankIn(kept, x)] = ZeroSlice
           /\ Len(frame.value.targets) = Cardinality(kept)

\* the entries of a (batch, 2K) target that are numbers
KeptEntries(T) ==
    {bc \in (1 .. Len(T)) \X (1 .. Len(T[1])) : T[bc[1]][bc[2]].d # 0}

\* C4: RegressionMSELoss.remove_nans returns two flat sequences of the same
\* length, the targets and the predictions at the entries whose target is
\* a number, in row-major order; an entry is kept or dropped on its own,
\* whatever the other coordinate of its keypoint is.
C4_RegressionRemoveNans ==
    (IsInvoked("remove_nans") /\ inst.cls \in RegressionClasses) =>
        LET T == frame.args.targets
            P == frame.args.predictions
            kept == KeptEntries(T)
            out == frame.value
        IN  /\ Len(out.targets) = Cardinality(kept)
            /\ Len(out.predictions) = Cardinality(kept)
            /\ \A bc \in kept :
                  /\ out.targets[RankIn(kept, bc)] = T[bc[1]][bc[2]]
                  /\ out.predictions[RankIn(kept, bc)] = P[bc[1]][bc[2]]

\* remove_nans kept the y of a keypoint whose x is not-a-number, and
\* entries of two rows
C4_Witness ==
    /\ IsInvoked("remove_nans") /\ inst.cls \in RegressionClasses
    /\ LET T == frame.args.targets
           kept == KeptEntries(T)
       IN  /\ <<1, 1>> \notin kept /\ <<1, 2>> \in kept
           /\ frame.value.predictions[RankIn(kept, <<1, 2>>)] =
                 frame.args.predictions[1][2]
           /\ \E x \in kept : x[1] = 2
           /\ Len(frame.value.targets) = Cardinality(kept)
           /\ Cardinality(kept) >= 3

\* x < y for two numbers, by cross-multiplication
Below(x, y) == x.d # 0 /\ y.d # 0 /\ x.n * y.d < y.n * x.d

\* out is loss with the elements strictly below eps set to zero
Rectified(loss, eps, out) ==
    /\ Len(out) = Len(loss)
    /\ \A i \in 1 .. Len(loss) :
          /\ Below(loss[i], eps) => out[i] = R(0)
          /\ ~Below(loss[i], eps) => out[i] = loss[i]

\* C5: rectify_epsilon returns a tensor of the same length in which every
\* element strictly below epsilon is zero and every other element, one
\* equal to epsilon included, is the element of the input at its position.
C5_RectifyEpsilon ==
    /\ IsInvoked("rectify_epsilon") =>
          Rectified(frame.args.loss, inst.epsilon, frame.value)
    /\ (IsCall /\ Ran("rectify_epsilon")) =>
          Rectified(frame.elementwise_loss, inst.epsilon,
                    frame.epsilon_insensitive_loss)

\* rectify_epsilon zeroed an element between zero and epsilon and left an
\* element equal to epsilon as it was
C5_Witness ==
    /\ IsInvoked("rectify_epsilon")
    /\ Len(frame.args.loss) = 2
    /\ Below(R(0), frame.args.loss[1]) /\ Below(frame.args.loss[1], inst.epsilon)
    /\ frame.value[1] = R(0)
    /\ frame.args.loss[2] = inst.epsilon
    /\ frame.value[2] = inst.epsilon

WeightAt(log_weight) == weight([inst EXCEPT !.log_weight = log_weight])

C7_LogLoss ==
    /\ [](IsInvoked("log_loss") =>
            /\ Len(frame.value) = 2
            /\ frame.value[1].name =
                  frame.args.stage \o "_" \o inst.loss_name \o "_loss"
            /\ frame.value[1].value = frame.args.loss
            /\ frame.value[2].name = inst.loss_name \o "_weight"
            /\ frame.value[2].value = WeightAt(inst.log_weight)
            /\ frame.args.stage \in Stages)
    /\ [][frame'.op = "log_loss" => inst' = inst]_vars

\* log_loss returned the records of a validation step of a regression loss
C7_Witness ==
    /\ IsInvoked("log_loss")
    /\ frame.args.stage = "val"
    /\ frame.value[1].name = "val_regression_mse_loss"
    /\ frame.value[2].name = "regression_mse_weight"
    /\ frame.value[1].value = Rat(1, 2)

RectifyingClassesAsStated == {"TemporalLoss", "PCALoss", "UnimodalLoss"}
RectifyingClasses == {"TemporalLoss", "PCALoss"}

\* C9, as stated: a call runs rectify_epsilon exactly when the instance is
\* a temporal, PCA or unimodal loss.
C9_AsStated ==
    Returned => (Ran("rectify_epsilon") <=> inst.cls \in RectifyingClassesAsStated)

\* C9, amended: a call runs rectify_epsilon, and reduces what it returns,
\* exactly when the instance is a temporal or PCA loss; the calls of the
\* unimodal, heatmap and regression variants reduce the elementwise loss.
C9_RectifyApplied ==
    (IsCall /\ Ran("reduce_loss") /\ frame.error = "") =>
        /\ Ran("rectify_epsilon") <=> inst.cls \in RectifyingClasses
        /\ frame.scalar_loss =
              (LET loss == IF inst.cls \in RectifyingClasses
                           THEN [i \in 1 .. Len(frame.elementwise_loss) |->
                                    IF Below(frame.elementwise_loss[i], inst.epsilon)
                                    THEN R(0) ELSE frame.elementwise_loss[i]]
                           ELSE frame.elementwise_loss
               IN  IF Len(loss) = 0 THEN NaN ELSE RDiv(SeqSum(loss), R(Len(loss))))

\* a unimodal call with an epsilon above some element of its loss returned
\* the mean of the elements as they were
C9_Witness ==
    /\ Returned
    /\ inst.cls = "UnimodalLoss"
    /\ ~Ran("rectify_epsilon")
    /\ \E i \in 1 .. Len(frame.elementwise_loss) :
          /\ Below(R(0), frame.elementwise_loss[i])
          /\ Below(frame.elementwise_loss[i], inst.epsilon)

Constructed == frame.op = "__init__" /\ frame.error = ""

SupervisedClasses == HeatmapClasses \cup RegressionClasses

\* C10, as stated: a supervised variant has epsilon 0 after construction,
\* whatever the configuration.
C10_AsStated ==
    (Constructed /\ inst.cls \in SupervisedClasses) => inst.epsilon = R(0)

\* C10, amended: a heatmap variant has epsilon 0 after construction,
\* whatever epsilon the configuration supplies; a regression variant has
\* the epsilon the configuration supplies.
C10_SupervisedEpsilon ==
    Constructed =>
        /\ inst.cls \in HeatmapClasses => inst.epsilon = R(0)
        /\ inst.cls \in RegressionClasses => inst.epsilon = frame.args.epsilon

\* a heatmap loss was constructed from a configuration with an epsilon
\* that is not zero
C10_Witness ==
    /\ Constructed
    /\ inst.cls = "HeatmapMSELoss"
    /\ frame.args.epsilon = R(2)
    /\ inst.epsilon = R(0)

\* C11: a UnimodalLoss call runs neither remove_nans nor rectify_epsilon,
\* its outcome is the one it has under every other epsilon of the instance,
\* and its arguments are the predicted keypoints, the predicted heatmaps
\* and the stage: no ground truth.
C11_UnimodalPredictionsOnly ==
    (IsCall /\ inst.cls = "UnimodalLoss") =>
        /\ ~Ran("remove_nans")
        /\ ~Ran("rectify_epsilon")
        /\ DOMAIN frame.args = {"keypoints_pred", "heatmaps_pred", "stage"}
        /\ \A e \in Epsilons :
              LET other == Loss_call([inst EXCEPT !.epsilon = e], frame.args)
              IN  /\ other.result = frame.result
                  /\ other.error = frame.error
                  /\ other.returned = frame.returned

\* a unimodal call returned with a loss element above zero and below the
\* instance's epsilon, which rectification would have zeroed
C11_Witness ==
    /\ Returned
    /\ inst.cls = "UnimodalLoss"
    /\ \E i \in 1 .. Len(frame.elementwise_loss) :
          /\ Below(R(0), frame.elementwise_loss[i])
          /\ Below(frame.elementwise_loss[i], inst.epsilon)
    /\ Below(R(0), frame.result.scalar)

IsInit == frame.op = "__init__"

NoTable(cfg) == cfg.mirrored_column_matches = <<>>

\* C12: PCALoss(loss_name = pca_multiview) without mirrored_column_matches
\* raises before any fit has run and leaves no instance; pca_singleview
\* without mirrored_column_matches constructs the instance.
C12_MultiviewNeedsTable ==
    (IsInit /\ frame.cls = "PCALoss" /\ NoTable(frame.args)) =>
        /\ frame.args.loss_name = "pca_multiview" =>
              /\ frame.error = "ValueError"
              /\ pc = "failed"
              /\ inst = NoInst
              /\ frame.fits = 0
              /\ hist.fits = 0
        /\ frame.args.loss_name = "pca_singleview" =>
              /\ frame.error = ""
              /\ pc = "done"
              /\ inst.cls = "PCALoss"
              /\ inst.pca.fitted

\* the construction of a multiview PCA loss without a table has failed
C12_Witness ==
    /\ IsInit
    /\ frame.cls = "PCALoss"
    /\ frame.args.loss_name = "pca_multiview"
    /\ NoTable(frame.args)
    /\ frame.error = "ValueError"
    /\ inst = NoInst

KnownMethods == {"mean", "sum"}

\* C13, as stated: an unknown reduction method is refused at construction,
\* so that no invocation on a constructed instance fails on it.
C13_AsStated ==
    (frame.op = "reduce_loss" /\ frame.args.method \notin KnownMethods) =>
        frame.error = ""

\* C13, amended: no constructor takes or checks a reduction method; a
\* reduce_loss given a method other than mean and sum raises KeyError at
\* that invocation, one given mean or sum returns; __call__ passes mean
\* and never fails on the method.
C13_UnknownMethodAtReduce ==
    /\ IsInit => /\ "method" \notin DOMAIN frame.args
                 /\ frame.error \in {"", "ValueError"}
    /\ frame.op = "reduce_loss" =>
          (frame.error = "KeyError" <=> frame.args.method \notin KnownMethods)
    /\ frame.op = "reduce_loss" => frame.error \in {"", "KeyError"}
    /\ (IsCall /\ Ran("reduce_loss")) =>
          /\ frame.reduce_method = "mean"
          /\ frame.error # "KeyError"

\* reduce_loss was invoked with the method max on a constructed instance
\* and raised KeyError
C13_Witness ==
    /\ frame.op = "reduce_loss"
    /\ frame.args.method = "max"
    /\ frame.error = "KeyError"
    /\ inst = hist.constructed
    /\ inst.cls \in ConcreteClasses

\* C14: a call that returns after reducing a tensor of no elements returns
\* exactly zero, never not-a-number.
C14_EmptyMeanIsZero ==
    (Returned /\ Len(Reduced) = 0) =>
        /\ ~IsNaN(frame.result.scalar)
        /\ frame.result.scalar = R(0)

\* the frame is a call with the arguments of the call the history keeps
Repeated == IsCall /\ hist.first.state = "recorded" /\ hist.again

Exists == pc \in {"ready", "done"}

\* C16: the instance is, after any calls, as its constructor left it:
\* epsilon, log_weight, loss_name and the fitted PCA parameters (kept
\* eigenvectors, mean, empirical epsilon) are unchanged.
C16_InstanceFrozen ==
    Exists =>
        /\ inst.epsilon = hist.constructed.epsilon
        /\ inst.log_weight = hist.constructed.log_weight
        /\ inst.loss_name = hist.constructed.loss_name
        /\ inst.pca.kept_eigenvectors = hist.constructed.pca.kept_eigenvectors
        /\ inst.pca.mean = hist.constructed.pca.mean
        /\ inst.pca.epsilon = hist.constructed.pca.epsilon
        /\ inst = hist.constructed

\* a PCA call that rectified and returned has left the instance as it was
\* constructed
C16_Witness ==
    /\ Returned
    /\ inst.cls = "PCALoss"
    /\ Ran("rectify_epsilon")
    /\ inst.pca.fitted
    /\ inst = hist.constructed

\* C17: the fit of a PCA loss has run exactly once whenever the instance
\* exists, so before any call, and no fit has run while there is no
\* instance; calls leave the count at one.  The other classes run no fit.
C17_FitOnce ==
    /\ (Exists /\ inst.cls = "PCALoss") => hist.fits = 1
    /\ (Exists /\ inst.cls # "PCALoss") => hist.fits = 0
    /\ ~Exists => hist.fits = 0
    /\ IsCall => Exists

\* a PCA call has returned and the fit has run once
C17_Witness ==
    /\ Returned
    /\ inst.cls = "PCALoss"
    /\ frame.args.stage = "val"
    /\ hist.fits = 1

\* C18: the epsilon of a PCA loss is the empirical epsilon of its fit,
\* whatever epsilon the configuration supplies, and the PCA call rectifies
\* the reprojection error with it.
C18_PcaEpsilon ==
    /\ (Exists /\ inst.cls = "PCALoss") =>
          /\ inst.pca.fitted
          /\ inst.epsilon = inst.pca.epsilon
    /\ (IsCall /\ inst.cls = "PCALoss" /\ Ran("rectify_epsilon")) =>
          Rectified(frame.elementwise_loss, inst.pca.epsilon,
                    frame.epsilon_insensitive_loss)

\* a PCA loss was constructed from a configuration whose epsilon is not the
\* empirical epsilon of the fit
C18_Witness ==
    /\ Constructed
    /\ inst.cls = "PCALoss"
    /\ frame.args.epsilon # inst.pca.epsilon
    /\ Below(R(0), inst.pca.epsilon)
    /\ inst.epsilon = inst.pca.epsilon

\* v is the square root of m, to within the 1/SqrtScale of the model:
\* 0 <= v, v*v <= m < (v + 1/SqrtScale)^2
IsRootOf(v, m) ==
    /\ ~IsNaN(v) /\ ~IsNaN(m)
    /\ v.n >= 0
    /\ ~Below(m, RMul(v, v))
    /\ LET next == RAdd(v, Rat(1, SqrtScale))
       IN  Below(m, RMul(next, next))

Square(x) == RMul(x, x)

IsComputeLoss(cls) == frame.op = "compute_loss" /\ inst.cls = cls

\* C19: TemporalLoss.compute_loss returns (batch - 1) rows of K values,
\* value [t][k] the Euclidean norm of the step of keypoint k from frame t
\* to frame t + 1; one keypoint at (0,0), (3,4), (3,4) gives [5, 0].
C19_TemporalDisplacement ==
    IsComputeLoss("TemporalLoss") =>
        LET P == frame.args.predictions
            V == frame.value
            K == Len(P[1]) \div 2
        IN  /\ frame.error = ""
            /\ Len(V) = Len(P) - 1
            /\ \A t \in 1 .. Len(V) :
                  /\ Len(V[t]) = K
                  /\ \A k \in 1 .. K :
                        IsRootOf(V[t][k],
                            RAdd(Square(RSub(P[t + 1][2 * k - 1], P[t][2 * k - 1])),
                                 Square(RSub(P[t + 1][2 * k], P[t][2 * k]))))
            /\ P = <<<<R(0), R(0)>>, <<R(3), R(4)>>, <<R(3), R(4)>>>> =>
                  V = <<<<R(5)>>, <<R(0)>>>>

C21_RmseSeesFullBatch ==
    (IsCall /\ inst.cls = "RegressionRMSELoss" /\ Ran("compute_loss")) =>
        LET T == frame.args.keypoints_targ
        IN  /\ ~Ran("remove_nans")
            /\ Len(frame.targets) = Len(T) * Len(T[1])
            /\ Len(frame.predictions) = Len(T) * Len(T[1])

\* the variants whose remove_nans has the body `pass`
PassClasses == {"PCALoss", "TemporalLoss", "UnimodalLoss"}

\* C22: remove_nans of the PCA, the temporal and the unimodal loss returns
\* the targets and the predictions it was given, unchanged.
C22_RemoveNansIsIdentity ==
    (IsInvoked("remove_nans") /\ inst.cls \in PassClasses) =>
        /\ frame.value # None
        /\ frame.value = [targets |-> frame.args.targets,
                          predictions |-> frame.args.predictions]

\* the names the registry is documented to hold
RegisteredNames ==
    {"regression", "heatmap_mse", "heatmap_wasserstein", "pca_multiview",
     "pca_singleview", "temporal", "unimodal_mse", "unimodal_wasserstein"}

IsLookup == frame.op = "get_loss_classes"

\* C23: looking up a name outside the registered set raises KeyError, with
\* no class returned in its place; looking up a registered name returns a
\* concrete class, whose __call__ body ends in a return, never the base
\* Loss; and a call of an instance that returns hands back a scalar and the
\* two log records.
C23_RegistryLookup ==
    /\ IsLookup =>
          /\ frame.args.name \notin RegisteredNames =>
                 frame.error = "KeyError" /\ frame.value = <<>>
          /\ frame.args.name \in RegisteredNames =>
                 /\ frame.error = ""
                 /\ frame.value \in ConcreteClasses
                 /\ CallBody(frame.value)[Len(CallBody(frame.value))] = "return"
    /\ Returned =>
          /\ frame.result.scalar = RMul(WeightAt(inst.log_weight), frame.scalar_loss)
          /\ Len(frame.result.logs) = 2

\* the name rmse, the loss_name of a class of the module, was looked up
\* and refused
C23_Witness ==
    /\ IsLookup
    /\ frame.args.name = "rmse"
    /\ frame.error = "KeyError"

\* C26: in a RegressionRMSELoss call with a stage, for every pattern of
\* not-a-number entries in the targets, the call does not fail and the
\* two entries of every pair compute_loss averages, the (2i-1)-th and the
\* 2i-th entry that remove_nans kept, are the x and the y of one keypoint
\* of one frame.
C26_RmsePairsAligned ==
    (IsCall /\ inst.cls = "RegressionRMSELoss" /\ frame.args.stage \in Stages) =>
        LET kept == KeptEntries(frame.args.keypoints_targ)
        IN  /\ frame.error = ""
            /\ Returned
            /\ \A x \in kept : \A y \in kept :
                  (RankIn(kept, x) % 2 = 1 /\ RankIn(kept, y) = RankIn(kept, x) + 1)
                      => (y[1] = x[1] /\ x[2] % 2 = 1 /\ y[2] = x[2] + 1)

\* C28: a call whose stage is None, the default of the call signature,
\* gets through log_loss as a call with train, val or test does: it returns
\* the weighted scalar and the two log records.
C28_StageNoneAccepted ==
    (IsCall /\ frame.args.stage = None /\ Ran("log_loss")) =>
        /\ frame.error = ""
        /\ Returned
        /\ Len(frame.result.logs) = 2

\* the instance is what the class registered under the name builds when,
\* for the classes that take a loss_name, it is given that name
RegisteredAs(name) ==
    /\ get_loss_classes[name] = inst.cls
    /\ inst.cls \in {"PCALoss", "UnimodalLoss"} => inst.loss_name = name

\* C29: the records log_loss returns on an instance built from the registry
\* entry of a name carry that name: {stage}_{name}_loss and {name}_weight.
C29_LogsUnderRegistryName ==
    IsInvoked("log_loss") =>
        \A name \in DOMAIN get_loss_classes :
            RegisteredAs(name) =>
                /\ frame.value[1].name = frame.args.stage \o "_" \o name \o "_loss"
                /\ frame.value[2].name = name \o "_weight"

IsDrawn == frame.op = "compute_heatmaps"

\* a label with a coordinate that is not-a-number
Missing(label) == IsNaN(label[1]) \/ IsNaN(label[2])

LabelledSlices(L) ==
    {bk \in (1 .. Len(L)) \X (1 .. Len(L[1])) : ~Missing(L[bk[1]][bk[2]])}

\* C24: the heatmap slice of every keypoint whose label has a coordinate
\* that is not-a-number is zero at every pixel, and the label array is as it
\* was; HeatmapLoss.remove_nans keeps the slices of the other keypoints and
\* only those, targets and predictions alike; and the heatmap loss of these
\* targets has one element per pixel of a labelled slice and does not feel
\* the predictions at the slices without a label.
C24_MissingLabelExcluded ==
    IsDrawn =>
        LET L == frame.args.labels
            H == frame.label_heatmaps
            K == Len(L[1])
            kept == LabelledSlices(L)
        IN  /\ \A b \in 1 .. Len(L) : \A k \in 1 .. K :
                  Missing(L[b][k]) =>
                      \A j \in 1 .. Len(H[b][k]) : H[b][k][j] = R(0)
            /\ frame.labels = L
            /\ Len(frame.masked.targets) = Cardinality(kept)
            /\ Len(frame.masked.predictions) = Cardinality(kept)
            /\ \A bk \in kept :
                  /\ frame.masked.targets[RankIn(kept, bk)] = H[bk[1]][bk[2]]
                  /\ frame.masked.predictions[RankIn(kept, bk)] =
                         ConstSlice(Code(bk[1], bk[2], K))
            /\ Len(frame.call.elementwise_loss) =
                   Cardinality(kept) * Len(H[1][1])
            /\ kept # {} =>
                  /\ frame.call.returned
                  /\ frame.call.result.scalar = R(0)

\* heatmaps were drawn for one frame of two keypoints, the first without
\* its y, on an image twice the size of the heatmap; one slice was left
\* for the loss
C24_Witness ==
    /\ IsDrawn
    /\ frame.args.height = 2
    /\ Len(frame.args.labels) = 1
    /\ frame.args.labels[1] = <<<<R(0), NaN>>, <<R(1), R(0)>>>>
    /\ frame.label_heatmaps[1][1] = ZeroSlice
    /\ frame.label_heatmaps[1][2] # ZeroSlice
    /\ Len(frame.masked.targets) = 1
    /\ frame.call.result.scalar = R(0)

IsDataset == frame.op = "DLCHeatmapDataset"

\* the frames none of whose keypoints misses a coordinate
NanFreeFrames(L) ==
    {b \in 1 .. Len(L) : \A k \in 1 .. Len(L[b]) : ~Missing(L[b][k])}

\* C25: a dataset built with noNans holds the frames without a
\* not-a-number in the x or the y of any keypoint, all of them and no
\* other, image names and labels side by side in the order they had.
C25_KeepsNanFreeFrames ==
    (IsDataset /\ frame.args.noNans) =>
        LET L == frame.args.labels
            clean == NanFreeFrames(L)
        IN  /\ Len(frame.labels) = Cardinality(clean)
            /\ Len(frame.image_names) = Cardinality(clean)
            /\ \A b \in clean :
                  LET i == Cardinality({c \in clean : c <= b})
                  IN  /\ frame.image_names[i] = frame.args.image_names[b]
                      /\ frame.labels[i] = L[b]

IsSetup == frame.op = "setup"

\* C27: setup in a mode other than deterministic, on a dataset of one frame
\* or more, does not fail, and the three subset sizes it asks for are not
\* negative and add up to the length of the dataset.
C27_SplitSizes ==
    (IsSetup /\ frame.args.mode # "deterministic" /\ frame.args.datalen >= 1) =>
        /\ frame.error = ""
        /\ Len(frame.value) = 3
        /\ \A i \in 1 .. 3 : frame.value[i] >= 0
        /\ frame.value[1] + frame.value[2] + frame.value[3] = frame.args.datalen

\* a dataset of 35 frames, where a tenth is half way between 3 and 4 and
\* the rounded sizes add up to 36, was split into 27, 4 and 4
C27_Witness ==
    /\ IsSetup
    /\ frame.args.mode = "random"
    /\ frame.args.datalen = 35
    /\ frame.error = ""
    /\ frame.value = <<27, 4, 4>>

IsGetModel == frame.op = "get_model"

Trackers == {"RegressionTracker", "HeatmapTracker",
             "SemiSupervisedRegressionTracker", "SemiSupervisedHeatmapTracker"}

\* C30: get_model returns a tracker for the model types regression and
\* heatmap, fully supervised or semi-supervised, and raises
\* NotImplementedError for any other model type.
C30_GetModelReturnsModel ==
    IsGetModel =>
        IF frame.args.model_type \in {"regression", "heatmap"}
        THEN frame.error = "" /\ frame.value \in Trackers
        ELSE frame.error = "NotImplementedError"

=============================================================================
